---------------------------- MODULE Spec2Model ----------------------------
(***************************************************************************)
(* EcoActu (environnement-protect): a single-page React front end around   *)
(* a hosted generative-AI API.                                             *)
(*                                                                         *)
(*   Spec      the App component: key check, key selection, loadAllContent *)
(*             runs and the effect that re-runs the key check (the chat    *)
(*             window stays closed).                                       *)
(*   SpecChat  the ChatbotWindow component: session effect, sends, streamed*)
(*             fragments, failures, opening and closing. The App is its    *)
(*             environment: it changes the hasApiKey prop and runs         *)
(*             handleSelectApiKey; its loads are not stepped.              *)
(*   SpecNews  one call of fetchEnvironmentalNews: the response text is    *)
(*             parsed (JSON.parse or the regex fallback), the articles are *)
(*             built, one image job per article settles, the call returns  *)
(*             or throws. App and ChatbotWindow are not stepped.           *)
(*   SpecDetail  the DetailedArticleView component inside the App: an      *)
(*             article is opened, its content is fetched, the view is      *)
(*             left, the key is lost and selected again.                   *)
(*   SpecSources  the source collection of fetchEnvironmentalNews, applied *)
(*             to every short list of grounding chunks.                    *)
(*   SpecReviews  the review form and handleAddReview inside the App:      *)
(*             typing, submitting, and the navigation, key changes and     *)
(*             reloads that unmount the form.                              *)
(*   SpecShown  the source lists of DetailedArticleView and NewsCard,      *)
(*             rendered for every short list of sources.                   *)
(*   SpecDisplay  the filteredAndSortedNews memo, computed for every short *)
(*             list of articles, category and sort order.                  *)
(*   SpecBusy  the App's loads (as in Spec) and the chat window's sends    *)
(*             (as in SpecChat), with fetches that are bound to settle.    *)
(*                                                                         *)
(* All code runs on one event loop: an action is one synchronous segment   *)
(* of a handler (from one await to the next), followed by the render it    *)
(* causes and the effects that render fires.                               *)
(***************************************************************************)
EXTENDS Integers, Sequences, FiniteSets, Bags, TLC

\* ------------------------------------------------------------------ bounds
\* Loads (loadAllContent runs) started in one behaviour.
MaxLoads == 2
\* User clicks (reload, key selection) in one behaviour.
MaxUserActions == 1

\* Chat sends started in one behaviour.
MaxSends == 2
\* Fragments the provider streams for one send.
MaxFragments == 2
\* Calls of createChatSession in one behaviour.
MaxSessions == 2
\* Detailed-content fetches started in one behaviour.
MaxDetails == 2
\* Grounding chunks in the list given to the source collector.
MaxChunks == 2
\* Elements of a JSON array, and article blocks, in a response text.
MaxItems == 2
\* Submissions of the review form in one behaviour.
MaxReviews == 3
\* Sources of the article given to a view.
MaxSources == 4
\* Articles of the list given to the filter and sort.
MaxArticles == 3

\* --------------------------------------------------------------- constants
Null == "null"

\* The values the App's `error` state takes.
ErrSelectKey == "Veuillez selectionner une cle API pour utiliser l'application."
ErrCheck == "Erreur lors de la verification de la cle API."
ErrOpen == "Erreur lors de l'ouverture du selecteur de cle API."
ErrCredential == "Cle API invalide ou non selectionnee. Veuillez selectionner votre cle API."
ErrNews == "Failed to fetch news from Gemini API: <message>"
ErrFacts == "Failed to fetch environmental facts from Gemini API: <message>"
ErrDetail == "Failed to fetch detailed content from Gemini API: <message>}"

\* How an outbound call fails: the provider's error is either one the service
\* classifies as a credential error, or any other.
FailureKinds == {"credential", "generic"}

\* One hour in milliseconds: the createdAt step between neighbours.
HourMs == 3600000

VARIABLES
    \* App state (useState)
    news, environmentalFacts, loading, loadingFacts, error, hasApiKey,
    selectedArticle,
    \* the host's key store (window.aistudio)
    hostKey,
    \* async functions suspended at an await
    checks,      \* bag: checkApiKeyAndLoadContent awaiting hasSelectedApiKey,
                 \* each holding whether the `error` its loadAllContent closure
                 \* captured is set (the closure only tests `!error`)
    selects,     \* bag: handleSelectApiKey awaiting openSelectKey, likewise
    runs,        \* set of loadAllContent runs [id, pc, err]: err is whether
                 \* the captured `error` is set
    \* history
    loadsStarted, userActions,
    \* App state: whether the ChatbotWindow is mounted
    isChatbotOpen,
    \* ChatbotWindow state (useState, useRef); lost when the window unmounts
    messages, inputMessage, chatLoading, chatError, chatSessionRef,
    \* the window's handleSendMessage call [no, pc, text, produced]: pc is
    \* "idle" before the first send, "stream" while sendMessageToChat is
    \* awaited, then "resolved" or "failed" (kept until the next send); text
    \* is botResponseText, produced the fragments the provider has generated
    send,
    \* sends still awaited whose window was closed under them
    orphans,
    \* history
    sendsStarted,
    createCalls,   \* calls of createChatSession
    keyGained,     \* times the hasApiKey prop given to the window turned true
    \* one call of fetchEnvironmentalNews: where it stands ("call", then
    \* "awaitContent" while generateContent is awaited, "awaitImages" while
    \* Promise.all is awaited, then "returned" or "thrown")
    fetchPc,
    response,                \* [text, groundingChunks] once resolved
    newsArticles,            \* the articles built by rawArticles.map
    imageJobs,               \* per article: "pending" or how its image job ended
    newsArticlesWithImages,  \* the value returned
    thrown,                  \* the error thrown to the caller
    \* DetailedArticleView state (useState); lost when the view unmounts
    detailedContent, loadingContent, errorContent,
    detailFetch,     \* "none", or "await" while the view's effect awaits
                     \* fetchDetailedArticleContent, then "done"
    detailOrphans,   \* fetches still awaited whose view was unmounted
    detailsStarted,  \* history
    \* the source collector applied to one list of grounding chunks
    groundingChunks, allSources, collected,
    \* App state: the visitor reviews
    reviews,
    reviewInput,     \* ReviewForm state (useState); lost when the form unmounts
    reviewsSubmitted, \* history: the inputs the form was submitted with, in order
    reviewNow,       \* the wall clock read by handleAddReview
    \* the source lists of the views, rendered for one article
    articleSources,  \* article.sources
    detailShown,     \* the links DetailedArticleView lists
    cardShown,       \* the links NewsCard lists
    sourcesRendered,
    \* the App's useMemo over [news, selectedCategory, sortOrder]
    newsList,        \* the articles held in `news`
    selectedCategory, sortOrder,
    filteredAndSortedNews,
    memoized

appVars == <<news, environmentalFacts, loading, loadingFacts, error, hasApiKey,
             selectedArticle, hostKey, checks, selects, runs, loadsStarted,
             userActions>>

chatVars == <<isChatbotOpen, messages, inputMessage, chatLoading, chatError,
              chatSessionRef, send, orphans, sendsStarted, createCalls,
              keyGained>>

\* What the ChatbotWindow never touches of the App.
appLoadVars == <<news, environmentalFacts, loading, loadingFacts, error,
                 selectedArticle, hostKey, checks, runs, loadsStarted>>

newsVars == <<fetchPc, response, newsArticles, imageJobs,
              newsArticlesWithImages, thrown>>
detailVars == <<detailedContent, loadingContent, errorContent, detailFetch,
                detailOrphans, detailsStarted>>
sourceVars == <<groundingChunks, allSources, collected>>
reviewVars == <<reviews, reviewInput, reviewsSubmitted, reviewNow>>
shownVars == <<articleSources, detailShown, cardShown, sourcesRendered>>
displayVars == <<newsList, selectedCategory, sortOrder,
                 filteredAndSortedNews, memoized>>
\* What only the specifications of the rendering functions step.
renderVars == <<shownVars, displayVars>>
vars == <<appVars, chatVars, newsVars, detailVars, sourceVars, reviewVars,
          renderVars>>

\* ---------------------------------------------------------------- helpers
One(e) == SetToBag({e})

\* useEffect(() => checkApiKeyAndLoadContent(), [checkApiKeyAndLoadContent]):
\* checkApiKeyAndLoadContent depends on loadAllContent, which is re-created
\* whenever `error` changes, so a render with a new `error` runs the effect
\* again. `pending` is the bag of checks after the segment, `newError` the
\* value of `error` it leaves.
EffectRerun(pending, newError) ==
    IF newError # error THEN pending (+) One(newError # Null) ELSE pending

\* The message a failed fetch is surfaced with.
NewsMessage(kind) == IF kind = "credential" THEN ErrCredential ELSE ErrNews
FactsMessage(kind) == IF kind = "credential" THEN ErrCredential ELSE ErrFacts

\* err.message.includes("Cle API invalide")
IsInvalidKeyMessage(msg) == msg = ErrCredential

\* loadAllContent(true), up to its first await: a new run waits for the news.
NewRun(capturedError) ==
    [id |-> loadsStarted + 1, pc |-> "news", err |-> capturedError]

\* ------------------------------------------------------------------- Init
InitApp ==
    /\ news = 0
    /\ environmentalFacts = 0
    /\ loading = TRUE
    /\ loadingFacts = TRUE
    /\ error = Null
    /\ hasApiKey = FALSE
    /\ selectedArticle = Null
    /\ hostKey \in BOOLEAN
    /\ checks = One(FALSE)
    /\ selects = EmptyBag
    /\ runs = {}
    /\ loadsStarted = 0
    /\ userActions = 0

NoSend == [no |-> 0, pc |-> "idle", text |-> <<>>, produced |-> <<>>]

\* No ChatbotWindow is mounted.
InitChat ==
    /\ isChatbotOpen = FALSE
    /\ messages = <<>>
    /\ inputMessage = <<>>
    /\ chatLoading = FALSE
    /\ chatError = Null
    /\ chatSessionRef = Null
    /\ send = NoSend
    /\ orphans = 0
    /\ sendsStarted = 0
    /\ createCalls = 0

\* fetchEnvironmentalNews has been called and has not run yet.
NoResponse == [text |-> <<"(no response yet)">>,
               groundingChunks |-> [present |-> FALSE, list |-> <<>>]]
InitNews ==
    /\ fetchPc = "call"
    /\ response = NoResponse
    /\ newsArticles = <<>>
    /\ imageJobs = <<>>
    /\ newsArticlesWithImages = <<>>
    /\ thrown = Null

\* No DetailedArticleView is mounted.
InitDetail ==
    /\ detailedContent = Null
    /\ loadingContent = TRUE
    /\ errorContent = Null
    /\ detailFetch = "none"
    /\ detailOrphans = 0
    /\ detailsStarted = 0

\* The collector has not run.
InitSources ==
    /\ groundingChunks = [present |-> FALSE, list |-> <<>>]
    /\ allSources = <<>>
    /\ collected = FALSE

\* One hundred hours after the epoch: a wall clock reading.
Epoch == 100 * HourMs

\* No review was given; the form, where mounted, is empty.
InitReviews ==
    /\ reviews = <<>>
    /\ reviewInput = <<>>
    /\ reviewsSubmitted = <<>>
    /\ reviewNow = Epoch

\* No view has rendered a source list.
InitShown ==
    /\ articleSources = <<>>
    /\ detailShown = <<>>
    /\ cardShown = <<>>
    /\ sourcesRendered = FALSE

\* useState: sortOrder 'latest', selectedCategory 'all', no news.
InitDisplay ==
    /\ newsList = <<>>
    /\ selectedCategory = "all"
    /\ sortOrder = "latest"
    /\ filteredAndSortedNews = <<>>
    /\ memoized = FALSE

InitRender == InitShown /\ InitDisplay

Init ==
    InitApp /\ InitChat /\ InitNews /\ InitDetail /\ InitSources
    /\ InitReviews /\ InitRender
    /\ keyGained = 0

\* ---------------------------------------------------------------- actions
\* checkApiKeyAndLoadContent: hasSelectedApiKey() resolved true.
CheckSelected ==
    \E e \in BagToSet(checks) :
        /\ hostKey
        /\ loadsStarted < MaxLoads
        /\ hasApiKey' = TRUE
        /\ loading' = TRUE
        /\ loadingFacts' = TRUE
        /\ error' = Null
        /\ runs' = runs \cup {NewRun(e)}
        /\ loadsStarted' = loadsStarted + 1
        /\ checks' = EffectRerun(checks (-) One(e), Null)
        /\ UNCHANGED <<news, environmentalFacts, selectedArticle, hostKey,
                       selects, userActions>>

\* checkApiKeyAndLoadContent: hasSelectedApiKey() resolved false.
CheckNotSelected ==
    \E e \in BagToSet(checks) :
        /\ ~hostKey
        /\ hasApiKey' = FALSE
        /\ loading' = FALSE
        /\ loadingFacts' = FALSE
        /\ error' = ErrSelectKey
        /\ checks' = EffectRerun(checks (-) One(e), ErrSelectKey)
        /\ UNCHANGED <<news, environmentalFacts, selectedArticle, hostKey,
                       selects, runs, loadsStarted, userActions>>

\* checkApiKeyAndLoadContent: hasSelectedApiKey() rejected.
CheckFailed ==
    \E e \in BagToSet(checks) :
        /\ error' = ErrCheck
        /\ loading' = FALSE
        /\ loadingFacts' = FALSE
        /\ checks' = EffectRerun(checks (-) One(e), ErrCheck)
        /\ UNCHANGED <<news, environmentalFacts, hasApiKey, selectedArticle,
                       hostKey, selects, runs, loadsStarted, userActions>>

\* The user clicks "Selectionner la cle API" (shown while hasApiKey is false):
\* handleSelectApiKey runs up to `await openSelectKey()`.
ClickSelectApiKey ==
    /\ ~hasApiKey
    /\ userActions < MaxUserActions
    /\ userActions' = userActions + 1
    /\ selects' = selects (+) One(error # Null)
    /\ UNCHANGED <<news, environmentalFacts, loading, loadingFacts, error,
                   hasApiKey, selectedArticle, hostKey, checks, runs,
                   loadsStarted>>

\* handleSelectApiKey: openSelectKey() resolved (the user picked a key, or
\* closed the dialog: the handler assumes success either way).
SelectResolved ==
    \E e \in BagToSet(selects), picked \in BOOLEAN :
        /\ loadsStarted < MaxLoads
        /\ hostKey' = (hostKey \/ picked)
        /\ hasApiKey' = TRUE
        /\ selectedArticle' = Null
        /\ loading' = TRUE
        /\ loadingFacts' = TRUE
        /\ error' = Null
        /\ runs' = runs \cup {NewRun(e)}
        /\ loadsStarted' = loadsStarted + 1
        /\ selects' = selects (-) One(e)
        /\ checks' = EffectRerun(checks, Null)
        /\ UNCHANGED <<news, environmentalFacts, userActions>>

\* handleSelectApiKey: openSelectKey() rejected.
SelectFailed ==
    \E e \in BagToSet(selects) :
        /\ error' = ErrOpen
        /\ selects' = selects (-) One(e)
        /\ checks' = EffectRerun(checks, ErrOpen)
        /\ UNCHANGED <<news, environmentalFacts, loading, loadingFacts,
                       hasApiKey, selectedArticle, hostKey, runs,
                       loadsStarted, userActions>>

\* The reload control: shown on the main view while a key is selected,
\* disabled while loading or loadingFacts.
ClickReload ==
    /\ hasApiKey
    /\ selectedArticle = Null
    /\ ~(loading \/ loadingFacts)
    /\ userActions < MaxUserActions
    /\ loadsStarted < MaxLoads
    /\ userActions' = userActions + 1
    /\ loading' = TRUE
    /\ loadingFacts' = TRUE
    /\ error' = Null
    /\ runs' = runs \cup {NewRun(error # Null)}
    /\ loadsStarted' = loadsStarted + 1
    /\ checks' = EffectRerun(checks, Null)
    /\ UNCHANGED <<news, environmentalFacts, hasApiKey, selectedArticle,
                   hostKey, selects>>

NewsLoadedNewestWins ==
    \E r \in runs :
        /\ r.pc = "news"
        /\ news' = IF r.id > news THEN r.id ELSE news
        /\ loading' = FALSE
        /\ runs' = (runs \ {r}) \cup {[r EXCEPT !.pc = "facts"]}
        /\ UNCHANGED <<environmentalFacts, loadingFacts, error, hasApiKey,
                       selectedArticle, hostKey, checks, selects,
                       loadsStarted, userActions>>
\* loadAllContent: fetchEnvironmentalNews() resolved; the run goes on to the
\* facts fetch.
NewsLoaded ==
    \E r \in runs :
        /\ r.pc = "news"
        /\ news' = r.id
        /\ loading' = FALSE
        /\ runs' = (runs \ {r}) \cup {[r EXCEPT !.pc = "facts"]}
        /\ UNCHANGED <<environmentalFacts, loadingFacts, error, hasApiKey,
                       selectedArticle, hostKey, checks, selects,
                       loadsStarted, userActions>>

NewsFailedAborting ==
    \E r \in runs, kind \in FailureKinds :
        /\ r.pc = "news"
        /\ error' = NewsMessage(kind)
        /\ hasApiKey' = IF IsInvalidKeyMessage(NewsMessage(kind))
                          THEN FALSE ELSE hasApiKey
        /\ loading' = FALSE
        /\ loadingFacts' = FALSE
        /\ runs' = runs \ {r}
        /\ checks' = EffectRerun(checks, NewsMessage(kind))
        /\ UNCHANGED <<news, environmentalFacts, selectedArticle, hostKey,
                       selects, loadsStarted, userActions>>
\* loadAllContent: fetchEnvironmentalNews() rejected.
NewsFailed ==
    \E r \in runs, kind \in FailureKinds :
        /\ r.pc = "news"
        /\ error' = NewsMessage(kind)
        /\ hasApiKey' = IF IsInvalidKeyMessage(NewsMessage(kind))
                          THEN FALSE ELSE hasApiKey
        /\ loading' = FALSE
        /\ runs' = (runs \ {r}) \cup {[r EXCEPT !.pc = "facts"]}
        /\ checks' = EffectRerun(checks, NewsMessage(kind))
        /\ UNCHANGED <<news, environmentalFacts, loadingFacts,
                       selectedArticle, hostKey, selects, loadsStarted,
                       userActions>>

\* loadAllContent: fetchEnvironmentalFacts() resolved.
FactsLoaded ==
    \E r \in runs :
        /\ r.pc = "facts"
        /\ environmentalFacts' = r.id
        /\ loadingFacts' = FALSE
        /\ runs' = runs \ {r}
        /\ UNCHANGED <<news, loading, error, hasApiKey, selectedArticle,
                       hostKey, checks, selects, loadsStarted, userActions>>

FactsFailedStillLoading ==
    \E r \in runs, kind \in FailureKinds :
        /\ r.pc = "facts"
        /\ error' = IF ~r.err THEN FactsMessage(kind) ELSE error
        /\ hasApiKey' = IF IsInvalidKeyMessage(FactsMessage(kind))
                          THEN FALSE ELSE hasApiKey
        /\ runs' = runs \ {r}
        /\ checks' = EffectRerun(checks, error')
        /\ UNCHANGED <<news, environmentalFacts, loading, loadingFacts,
                       selectedArticle, hostKey, selects, loadsStarted,
                       userActions>>
\* loadAllContent: fetchEnvironmentalFacts() rejected. `if (!error)` reads
\* the `error` the run's closure captured.
FactsFailed ==
    \E r \in runs, kind \in FailureKinds :
        /\ r.pc = "facts"
        /\ error' = IF ~r.err THEN FactsMessage(kind) ELSE error
        /\ hasApiKey' = IF IsInvalidKeyMessage(FactsMessage(kind))
                          THEN FALSE ELSE hasApiKey
        /\ loadingFacts' = FALSE
        /\ runs' = runs \ {r}
        /\ checks' = EffectRerun(checks, error')
        /\ UNCHANGED <<news, environmentalFacts, loading, selectedArticle,
                       hostKey, selects, loadsStarted, userActions>>

NextApp ==
    \/ CheckSelected
    \/ CheckNotSelected
    \/ CheckFailed
    \/ ClickSelectApiKey
    \/ SelectResolved
    \/ SelectFailed
    \/ ClickReload
    \/ NewsLoaded
    \/ NewsFailed
    \/ FactsLoaded
    \/ FactsFailed

Next ==
    NextApp /\ UNCHANGED <<chatVars, newsVars, detailVars, sourceVars, reviewVars, renderVars>>

Spec == Init /\ [][Next]_vars

\* ============================================================ ChatbotWindow
\* Strings are sequences of characters.
Sentinel == "streaming-bot-response"
\* Date.now().toString(): a decimal timestamp, never one of the literal ids.
TimestampId == "<timestamp>"
TimestampErrorId == "<timestamp>-error"

ErrChatInit == "Impossible d'initialiser la session de chat. Veuillez reessayer."
ErrChatNoKey == "Veuillez selectionner une cle API pour utiliser le chatbot."
ErrChatKey == "Votre cle API est invalide ou a expire. Veuillez en selectionner une nouvelle."
ErrChatGeneric == "Desole, une erreur est survenue lors de la communication avec EcoBot. Veuillez reessayer."

\* What the user types: nothing, a blank, a question.
Inputs == {<<>>, <<" ">>, <<"q">>}
\* What the provider streams.
Fragments == {<<"a">>, <<"b", "c">>}

\* `of` is the send during which the message was created (0: by the session
\* effect); it stands for the message's timestamp.
InitialBot == [id |-> "initial-bot", sender |-> "bot", text |-> <<"h">>, of |-> 0]
UserMessage(txt, n) == [id |-> TimestampId, sender |-> "user", text |-> txt, of |-> n]
ErrorMessage(n) == [id |-> TimestampErrorId, sender |-> "bot", text |-> <<"!">>, of |-> n]

\* inputMessage.trim()
RECURSIVE Trim(_)
Trim(str) ==
    IF str = <<>> THEN str
    ELSE IF Head(str) = " " THEN Trim(Tail(str))
    ELSE IF str[Len(str)] = " " THEN Trim(SubSeq(str, 1, Len(str) - 1))
    ELSE str

\* The effect on [hasApiKey], run at mount and when the prop changes:
\* `created` is whether createChatSession() returns (it throws otherwise).
\* The calls of createChatSession one run of the effect makes.
CreateCalls(key, ref) == IF key /\ ref = Null THEN 1 ELSE 0

SessionEffect(key, ref, msgs, err, created) ==
    IF key /\ ref = Null
    THEN IF created
         THEN [ref |-> "chat", messages |-> <<InitialBot>>, error |-> Null]
         ELSE [ref |-> Null, messages |-> msgs, error |-> ErrChatInit]
    ELSE IF ~key /\ ref # Null
    THEN [ref |-> Null, messages |-> <<>>, error |-> ErrChatNoKey]
    ELSE [ref |-> ref, messages |-> msgs, error |-> err]

\* botResponseText += chunk
AccumulateReplacing(text, chunk) == chunk
Accumulate(text, chunk) == text \o chunk

\* The sink's setMessages updater: the last message is updated when it is the
\* streaming one, a streaming message is appended otherwise.
OnChunk(prev, text, n) ==
    IF prev # <<>> /\ prev[Len(prev)].sender = "bot"
                   /\ prev[Len(prev)].id = Sentinel
    THEN [i \in 1..Len(prev) |->
            IF i = Len(prev) THEN [prev[i] EXCEPT !.text = text] ELSE prev[i]]
    ELSE Append(prev, [id |-> Sentinel, sender |-> "bot", text |-> text, of |-> n])

\* The updater run once sendMessageToChat has resolved.
Finalize(prev, text) ==
    [i \in 1..Len(prev) |->
        IF prev[i].id = Sentinel
        THEN [prev[i] EXCEPT !.id = TimestampId, !.text = text]
        ELSE prev[i]]

InFlight == send.pc = "stream"

\* toggleChatbot, window closed: the ChatbotWindow mounts with fresh state
\* and its session effect runs.
OpenChatbot ==
    /\ ~isChatbotOpen
    /\ createCalls + CreateCalls(hasApiKey, Null) <= MaxSessions
    /\ createCalls' = createCalls + CreateCalls(hasApiKey, Null)
    /\ isChatbotOpen' = TRUE
    /\ \E created \in BOOLEAN :
         LET r == SessionEffect(hasApiKey, Null, <<>>, Null, created) IN
           /\ chatSessionRef' = r.ref
           /\ messages' = r.messages
           /\ chatError' = r.error
    /\ inputMessage' = <<>>
    /\ chatLoading' = FALSE
    /\ send' = NoSend
    /\ UNCHANGED <<orphans, sendsStarted, keyGained, appVars>>

\* toggleChatbot or onClose, window open: the ChatbotWindow unmounts, its
\* state is gone; a send it was awaiting goes on without it.
CloseChatbot ==
    /\ isChatbotOpen
    /\ isChatbotOpen' = FALSE
    /\ messages' = <<>>
    /\ inputMessage' = <<>>
    /\ chatLoading' = FALSE
    /\ chatError' = Null
    /\ chatSessionRef' = Null
    /\ send' = NoSend
    /\ orphans' = IF InFlight THEN orphans + 1 ELSE orphans
    /\ UNCHANGED <<sendsStarted, createCalls, keyGained, appVars>>

\* The input field (disabled while loading, without key, without session).
TypeInput ==
    \E v \in Inputs :
        /\ isChatbotOpen
        /\ ~chatLoading /\ hasApiKey /\ chatSessionRef # Null
        /\ v # inputMessage
        /\ inputMessage' = v
        /\ UNCHANGED <<isChatbotOpen, messages, chatLoading, chatError,
                       chatSessionRef, send, orphans, sendsStarted, createCalls, keyGained, appVars>>

\* handleSendMessage, up to `await sendMessageToChat(...)`.
HandleSendMessage ==
    /\ isChatbotOpen
    /\ IF Trim(inputMessage) = <<>> \/ chatLoading \/ chatSessionRef = Null
       THEN UNCHANGED vars
       ELSE /\ sendsStarted < MaxSends
            /\ sendsStarted' = sendsStarted + 1
            /\ messages' = Append(messages,
                                  UserMessage(inputMessage, sendsStarted + 1))
            /\ inputMessage' = <<>>
            /\ chatLoading' = TRUE
            /\ chatError' = Null
            /\ send' = [no |-> sendsStarted + 1, pc |-> "stream",
                        text |-> <<>>, produced |-> <<>>]
            /\ UNCHANGED <<isChatbotOpen, chatSessionRef, orphans, createCalls,
                           keyGained, appVars>>

\* sendMessageToChat: the stream yields a fragment and the sink is called.
\* The streams explored are those whose consecutive fragments differ.
SendChunk ==
    \E f \in Fragments :
        /\ isChatbotOpen /\ InFlight
        /\ Len(send.produced) < MaxFragments
        /\ IF send.produced = <<>> THEN TRUE
           ELSE f # send.produced[Len(send.produced)]
        /\ LET text == Accumulate(send.text, f) IN
             /\ send' = [send EXCEPT !.text = text,
                                     !.produced = Append(@, f)]
             /\ messages' = OnChunk(messages, text, send.no)
        /\ UNCHANGED <<isChatbotOpen, inputMessage, chatLoading, chatError,
                       chatSessionRef, orphans, sendsStarted, createCalls, keyGained, appVars>>

\* handleSendMessage: sendMessageToChat resolved (the stream ended).
SendResolved ==
    /\ isChatbotOpen /\ InFlight
    /\ messages' = Finalize(messages, send.text)
    /\ chatLoading' = FALSE
    /\ send' = [send EXCEPT !.pc = "resolved"]
    /\ UNCHANGED <<isChatbotOpen, inputMessage, chatError, chatSessionRef,
                   orphans, sendsStarted, createCalls, keyGained, appVars>>

\* handleSendMessage: sendMessageToChat rejected (opening the stream or a
\* fragment failed). A credential error calls onSelectApiKey, which is the
\* App's handleSelectApiKey.
SendFailed ==
    \E kind \in FailureKinds :
        /\ isChatbotOpen /\ InFlight
        /\ chatError' = IF kind = "credential" THEN ErrChatKey ELSE ErrChatGeneric
        /\ selects' = IF kind = "credential"
                        THEN selects (+) One(error # Null) ELSE selects
        /\ messages' = Append(messages, ErrorMessage(send.no))
        /\ chatLoading' = FALSE
        /\ send' = [send EXCEPT !.pc = "failed"]
        /\ UNCHANGED <<isChatbotOpen, inputMessage, chatSessionRef, orphans,
                       sendsStarted, createCalls, keyGained, hasApiKey, userActions, appLoadVars>>

\* A send whose window was closed settles: its state updates reach no
\* component; a credential error still calls onSelectApiKey.
OrphanSettled ==
    \E credential \in BOOLEAN :
        /\ orphans > 0
        /\ orphans' = orphans - 1
        /\ selects' = IF credential THEN selects (+) One(error # Null) ELSE selects
        /\ UNCHANGED <<isChatbotOpen, messages, inputMessage, chatLoading,
                       chatError, chatSessionRef, send, sendsStarted, createCalls, keyGained,
                       hasApiKey, userActions, appLoadVars>>

\* The App, as the window's environment: a load fails with the credential
\* error and resets hasApiKey; the window's session effect runs on the new
\* prop.
EnvKeyInvalidated ==
    /\ hasApiKey
    /\ hasApiKey' = FALSE
    /\ LET r == IF isChatbotOpen
                THEN SessionEffect(FALSE, chatSessionRef, messages, chatError, FALSE)
                ELSE [ref |-> chatSessionRef, messages |-> messages,
                      error |-> chatError] IN
         /\ chatSessionRef' = r.ref
         /\ messages' = r.messages
         /\ chatError' = r.error
    /\ UNCHANGED <<isChatbotOpen, inputMessage, chatLoading, send, orphans,
                   sendsStarted, createCalls, keyGained, selects, userActions, appLoadVars>>

\* The App, as the window's environment: handleSelectApiKey after
\* openSelectKey() resolved sets hasApiKey; the session effect runs when the
\* prop changed.
EnvSelectResolved ==
    \E e \in BagToSet(selects), created \in BOOLEAN :
        /\ selects' = selects (-) One(e)
        /\ hasApiKey' = TRUE
        /\ keyGained' = keyGained + (IF hasApiKey THEN 0 ELSE 1)
        /\ LET calls == IF isChatbotOpen /\ ~hasApiKey
                        THEN CreateCalls(TRUE, chatSessionRef) ELSE 0 IN
             /\ createCalls + calls <= MaxSessions
             /\ createCalls' = createCalls + calls
        /\ LET r == IF isChatbotOpen /\ ~hasApiKey
                    THEN SessionEffect(TRUE, chatSessionRef, messages,
                                       chatError, created)
                    ELSE [ref |-> chatSessionRef, messages |-> messages,
                          error |-> chatError] IN
             /\ chatSessionRef' = r.ref
             /\ messages' = r.messages
             /\ chatError' = r.error
        /\ UNCHANGED <<isChatbotOpen, inputMessage, chatLoading, send,
                       orphans, sendsStarted, userActions, appLoadVars>>

\* The key-selection button of the App or of the window.
EnvClickSelectApiKey == ClickSelectApiKey /\ UNCHANGED chatVars

InitChatEnv ==
    /\ InitChat
    /\ InitNews
    /\ InitDetail
    /\ InitSources
    /\ InitReviews
    /\ InitRender
    /\ news = 0
    /\ environmentalFacts = 0
    /\ loading = FALSE
    /\ loadingFacts = FALSE
    /\ error = Null
    /\ hasApiKey \in BOOLEAN
    /\ selectedArticle = Null
    /\ hostKey = hasApiKey
    /\ keyGained = (IF hasApiKey THEN 1 ELSE 0)
    /\ checks = EmptyBag
    /\ selects = EmptyBag
    /\ runs = {}
    /\ loadsStarted = 0
    /\ userActions = 0

NextChat ==
    /\ \/ OpenChatbot
       \/ CloseChatbot
       \/ TypeInput
       \/ HandleSendMessage
       \/ SendChunk
       \/ SendResolved
       \/ SendFailed
       \/ OrphanSettled
       \/ EnvKeyInvalidated
       \/ EnvSelectResolved
       \/ EnvClickSelectApiKey
    /\ UNCHANGED <<newsVars, detailVars, sourceVars, reviewVars, renderVars>>

SpecChat == InitChatEnv /\ [][NextChat]_vars

\* ====================================================== DetailedArticleView
\* The view is rendered while the key is held and an article is selected.
DetailMounted == hasApiKey /\ selectedArticle # Null

DetailArticles == {"a1", "a2"}
DetailMessage(kind) == IF kind = "credential" THEN ErrCredential ELSE ErrDetail

\* What is left of the view's state and of its fetch when it unmounts.
DetailUnmount ==
    /\ detailedContent' = Null
    /\ loadingContent' = TRUE
    /\ errorContent' = Null
    /\ detailFetch' = "none"
    /\ detailOrphans' = IF detailFetch = "await" THEN detailOrphans + 1
                        ELSE detailOrphans

\* The view mounts and its effect calls fetchDetailedArticleContent.
DetailMount ==
    /\ detailsStarted < MaxDetails
    /\ detailsStarted' = detailsStarted + 1
    /\ detailedContent' = Null
    /\ loadingContent' = TRUE
    /\ errorContent' = Null
    /\ detailFetch' = "await"
    /\ UNCHANGED detailOrphans

\* handleArticleClick on a card of the list (shown once the news has loaded).
HandleArticleClick ==
    \E article \in DetailArticles :
        /\ hasApiKey /\ selectedArticle = Null /\ ~loading /\ news # 0
        /\ selectedArticle' = article
        /\ DetailMount
        /\ UNCHANGED <<news, environmentalFacts, loading, loadingFacts, error,
                       hasApiKey, hostKey, checks, selects, runs,
                       loadsStarted, userActions>>

\* handleBackToNews, the view's "Retour" button.
HandleBackToNews ==
    /\ DetailMounted
    /\ selectedArticle' = Null
    /\ DetailUnmount
    /\ UNCHANGED <<news, environmentalFacts, loading, loadingFacts, error,
                   hasApiKey, hostKey, checks, selects, runs, loadsStarted,
                   userActions, detailsStarted>>

\* loadDetailedContent: fetchDetailedArticleContent resolved.
DetailLoaded ==
    /\ DetailMounted /\ detailFetch = "await"
    /\ detailedContent' = selectedArticle
    /\ loadingContent' = FALSE
    /\ detailFetch' = "done"
    /\ UNCHANGED <<errorContent, detailOrphans, detailsStarted, appVars>>

\* loadDetailedContent: fetchDetailedArticleContent rejected; the catch only
\* sets errorContent.
DetailFailed ==
    \E kind \in FailureKinds :
        /\ DetailMounted /\ detailFetch = "await"
        /\ errorContent' = DetailMessage(kind)
        /\ loadingContent' = FALSE
        /\ detailFetch' = "done"
        /\ UNCHANGED <<detailedContent, detailOrphans, detailsStarted, appVars>>

\* A fetch whose view was unmounted settles: its state updates reach no
\* component.
DetailOrphanSettled ==
    /\ detailOrphans > 0
    /\ detailOrphans' = detailOrphans - 1
    /\ UNCHANGED <<detailedContent, loadingContent, errorContent, detailFetch,
                   detailsStarted, appVars>>

\* The App, as the view's environment: a load fails with the credential
\* error and resets hasApiKey; the key prompt replaces the view.
DetailKeyInvalidated ==
    /\ hasApiKey
    /\ hasApiKey' = FALSE
    /\ IF DetailMounted THEN DetailUnmount
       ELSE UNCHANGED <<detailedContent, loadingContent, errorContent,
                        detailFetch, detailOrphans>>
    /\ UNCHANGED <<news, environmentalFacts, loading, loadingFacts, error,
                   selectedArticle, hostKey, checks, selects, runs,
                   loadsStarted, userActions, detailsStarted>>

\* The App, as the view's environment: checkApiKeyAndLoadContent sets
\* hasApiKey again; selectedArticle was kept, so the view mounts anew.
DetailKeyRechecked ==
    /\ ~hasApiKey
    /\ hasApiKey' = TRUE
    /\ IF selectedArticle # Null THEN DetailMount
       ELSE UNCHANGED detailVars
    /\ UNCHANGED <<news, environmentalFacts, loading, loadingFacts, error,
                   selectedArticle, hostKey, checks, selects, runs,
                   loadsStarted, userActions>>

\* The App, as the view's environment: handleSelectApiKey after
\* openSelectKey() resolved sets hasApiKey and clears selectedArticle.
DetailSelectResolved ==
    \E e \in BagToSet(selects) :
        /\ selects' = selects (-) One(e)
        /\ hasApiKey' = TRUE
        /\ selectedArticle' = Null
        /\ IF DetailMounted THEN DetailUnmount
           ELSE UNCHANGED <<detailedContent, loadingContent, errorContent,
                            detailFetch, detailOrphans>>
        /\ UNCHANGED <<news, environmentalFacts, loading, loadingFacts, error,
                       hostKey, checks, runs, loadsStarted, userActions,
                       detailsStarted>>

DetailClickSelectApiKey == ClickSelectApiKey /\ UNCHANGED detailVars

\* The news has loaded and the key is held.
InitDetailEnv ==
    /\ InitChat
    /\ InitNews
    /\ InitDetail
    /\ InitSources
    /\ InitReviews
    /\ InitRender
    /\ news = 1
    /\ environmentalFacts = 1
    /\ loading = FALSE
    /\ loadingFacts = FALSE
    /\ error = Null
    /\ hasApiKey = TRUE
    /\ selectedArticle = Null
    /\ hostKey = TRUE
    /\ keyGained = 1
    /\ checks = EmptyBag
    /\ selects = EmptyBag
    /\ runs = {}
    /\ loadsStarted = 1
    /\ userActions = 0

NextDetail ==
    /\ \/ HandleArticleClick
       \/ HandleBackToNews
       \/ DetailLoaded
       \/ DetailFailed
       \/ DetailOrphanSettled
       \/ DetailKeyInvalidated
       \/ DetailKeyRechecked
       \/ DetailSelectResolved
       \/ DetailClickSelectApiKey
    /\ UNCHANGED <<chatVars, newsVars, sourceVars, reviewVars, renderVars>>

SpecDetail == InitDetailEnv /\ [][NextDetail]_vars

\* ================================================== fetchEnvironmentalNews
\* A response text is a sequence of characters. The words "Titre:",
\* "Resume:" and "Categorie:", the JSON literal null and a well-formed JSON
\* object literal ("o1", "o2") each count as one character; "a" and "b" are
\* any other characters.
TitreWord == "Titre:"
ResumeWord == "Resume:"
CategorieWord == "Categorie:"
JsonNull == "null"
ObjectLiterals == {"o1", "o2"}

\* The value of an object literal.
ObjectOf(tok) ==
    IF tok = "o1"
    THEN [title |-> <<"a">>, summary |-> <<"b", " ", "a">>, category |-> <<"D">>]
    ELSE [title |-> <<"b">>, summary |-> <<"a">>, category |-> <<"P">>]

\* The property value read from something that has no such property.
Undefined == <<"undefined">>

IsWs(c) == c \in {" ", "\n"}

Min(S) == CHOOSE x \in S : \A y \in S : x <= y
Max(S) == CHOOSE x \in S : \A y \in S : x >= y

\* String.prototype.trim
RECURSIVE TrimWs(_)
TrimWs(str) ==
    IF str = <<>> THEN str
    ELSE IF IsWs(Head(str)) THEN TrimWs(Tail(str))
    ELSE IF IsWs(str[Len(str)]) THEN TrimWs(SubSeq(str, 1, Len(str) - 1))
    ELSE str

\* indexOf / lastIndexOf, 1-based, 0 when absent (-1 in the code).
IndexOf(str, c) ==
    IF \E i \in DOMAIN str : str[i] = c
    THEN Min({i \in DOMAIN str : str[i] = c}) ELSE 0
LastIndexOf(str, c) ==
    IF \E i \in DOMAIN str : str[i] = c
    THEN Max({i \in DOMAIN str : str[i] = c}) ELSE 0

\* jsonStartIndex !== -1 && jsonEndIndex !== -1 && jsonEndIndex > jsonStartIndex
HasBrackets(jsonStr) ==
    /\ IndexOf(jsonStr, "[") # 0
    /\ LastIndexOf(jsonStr, "]") # 0
    /\ LastIndexOf(jsonStr, "]") > IndexOf(jsonStr, "[")

CleanedJsonStr(jsonStr) ==
    SubSeq(jsonStr, IndexOf(jsonStr, "["), LastIndexOf(jsonStr, "]"))

\* ---- JSON.parse, on texts whose values are object literals, null and arrays
\* The first position from i on that holds no white space.
RECURSIVE SkipWs(_, _)
SkipWs(str, i) ==
    IF i <= Len(str) /\ IsWs(str[i]) THEN SkipWs(str, i + 1) ELSE i

\* The position after the JSON value that starts at i (white space skipped),
\* 0 when there is none. SkipElements: after "[" (first) or after ",".
RECURSIVE SkipValue(_, _), SkipElements(_, _, _)
SkipValue(str, i) ==
    LET j == SkipWs(str, i) IN
      IF j > Len(str) THEN 0
      ELSE IF str[j] \in ObjectLiterals \cup {JsonNull} THEN j + 1
      ELSE IF str[j] = "[" THEN SkipElements(str, j + 1, TRUE)
      ELSE 0
SkipElements(str, i, first) ==
    LET j == SkipWs(str, i) IN
      IF first /\ j <= Len(str) /\ str[j] = "]" THEN j + 1
      ELSE LET k == SkipValue(str, j)
               m == SkipWs(str, k) IN
             IF k = 0 \/ m > Len(str) THEN 0
             ELSE IF str[m] = "," THEN SkipElements(str, m + 1, FALSE)
             ELSE IF str[m] = "]" THEN m + 1
             ELSE 0

\* Whether JSON.parse(str) returns (it throws a SyntaxError otherwise).
JsonParses(str) ==
    LET k == SkipValue(str, 1) IN k # 0 /\ SkipWs(str, k) = Len(str) + 1

\* The elements of the array a parsed text starts with: for each, the object
\* literal, JsonNull, or "[" for a nested array.
RECURSIVE JsonElements(_, _)
JsonElements(str, i) ==
    LET j == SkipWs(str, i) IN
      IF str[j] = "]" THEN <<>>
      ELSE LET k == SkipValue(str, j)
               m == SkipWs(str, k) IN
             <<str[j]>> \o (IF str[m] = "," THEN JsonElements(str, m + 1)
                            ELSE <<>>)
JsonParse(str) == JsonElements(str, SkipWs(str, 1) + 1)

\* ---- the regex fallback (part_001)
\* /Titre:\s*(.*?)\nResume:\s*(.*?)\nCategorie:\s*(.*?)(?=\nTitre:|\n*$)/gs
\* The number of white-space characters from q on.
WsRun(str, q) == SkipWs(str, q) - q

\* The positions from q on where x is followed by y.
PairsFrom(str, q, x, y) ==
    {i \in q..(Len(str) - 1) : str[i] = x /\ str[i + 1] = y}

\* (?=\nTitre:|\n*$) at position e
LookaheadOk(str, e) ==
    \/ e + 1 <= Len(str) /\ str[e] = "\n" /\ str[e + 1] = TitreWord
    \/ \A j \in e..Len(str) : str[j] = "\n"

\* Where "\nResume:" can end group 1 when group 1 starts at a: some
\* "\nCategorie:" must follow it.
ResumeAt(str, a) ==
    {r \in PairsFrom(str, a, "\n", ResumeWord) :
        PairsFrom(str, r + 2, "\n", CategorieWord) # {}}

\* The match at p, where "Titre:" stands: \s* takes as much white space as
\* leaves a match, (.*?) as little text. Undefined-free only when Matches.
Matches(str, p) ==
    /\ p <= Len(str) /\ str[p] = TitreWord
    /\ \E w \in 0..WsRun(str, p + 1) : ResumeAt(str, p + 1 + w) # {}

MatchAt(str, p) ==
    LET w1 == Max({w \in 0..WsRun(str, p + 1) : ResumeAt(str, p + 1 + w) # {}})
        a  == p + 1 + w1
        r  == Min(ResumeAt(str, a))
        w2 == Max({w \in 0..WsRun(str, r + 2) :
                     PairsFrom(str, r + 2 + w, "\n", CategorieWord) # {}})
        b  == r + 2 + w2
        c  == Min(PairsFrom(str, b, "\n", CategorieWord))
        d  == c + 2 + WsRun(str, c + 2)
        e  == Min({x \in d..(Len(str) + 1) : LookaheadOk(str, x)})
    IN [g1 |-> SubSeq(str, a, r - 1), g2 |-> SubSeq(str, b, c - 1),
        g3 |-> SubSeq(str, d, e - 1), end |-> e]

\* matchAll: the matches from left to right, each search starting where the
\* previous match ended; every match gives one raw article.
RECURSIVE RegexFallback(_, _)
RegexFallback(str, from) ==
    LET starts == {p \in from..Len(str) : Matches(str, p)} IN
      IF starts = {} THEN <<>>
      ELSE LET m == MatchAt(str, Min(starts)) IN
             <<[title |-> TrimWs(m.g1), summary |-> TrimWs(m.g2),
                category |-> TrimWs(m.g3)]>>
             \o RegexFallback(str, m.end)

\* ---- the split fallback (services/geminiService.ts)
\* text.split(/Titre: /i).slice(1): the segments that follow each "Titre: ".
RECURSIVE SplitSegments(_, _)
SplitSegments(str, from) ==
    LET marks == PairsFrom(str, from, TitreWord, " ") IN
      IF marks = {} THEN <<>>
      ELSE LET p == Min(marks)
               rest == PairsFrom(str, p + 2, TitreWord, " ")
               stop == IF rest = {} THEN Len(str) + 1 ELSE Min(rest) IN
             <<SubSeq(str, p + 2, stop - 1)>> \o SplitSegments(str, stop)

\* The characters from q up to the end of the line.
LineFrom(str, q) ==
    LET ends == {i \in q..Len(str) : str[i] = "\n"} IN
      SubSeq(str, q, (IF ends = {} THEN Len(str) + 1 ELSE Min(ends)) - 1)

Digits(i) == ToString(i)
PlaceholderTitle(index) == <<"Actualite sans titre ", Digits(index + 1)>>
PlaceholderSummary(index) ==
    <<"Resume non disponible pour l'actualite ", Digits(index + 1), ".">>

\* One segment, index counted from 0: /^([^\n]+)/ and /Resume: ([^\n]+)/i.
SplitArticle(seg, index) ==
    LET sums == {i \in PairsFrom(seg, 1, ResumeWord, " ") :
                    LineFrom(seg, i + 2) # <<>>} IN
      [title |-> IF LineFrom(seg, 1) # <<>> THEN TrimWs(LineFrom(seg, 1))
                 ELSE PlaceholderTitle(index),
       summary |-> IF sums # {} THEN TrimWs(LineFrom(seg, Min(sums) + 2))
                   ELSE PlaceholderSummary(index)]

SplitFallback(str) ==
    LET segs == SplitSegments(str, 1) IN
      [i \in 1..Len(segs) |-> SplitArticle(segs[i], i - 1)]

\* ---- the response texts and grounding chunks explored
RECURSIVE Join(_, _)
Join(parts, sep) ==
    IF parts = <<>> THEN <<>>
    ELSE IF Len(parts) = 1 THEN parts[1]
    ELSE parts[1] \o sep \o Join(Tail(parts), sep)

SeqsUpTo(S, n) == UNION {[1..k -> S] : k \in 0..n}

\* A JSON array of the given values.
JsonArrayText(values) ==
    <<"[">> \o Join([i \in DOMAIN values |-> <<values[i]>>], <<",", " ">>)
            \o <<"]">>

\* Article blocks in the "Titre: / Resume: / Categorie:" layout: complete,
\* without category, title only, blank title, blank category, and with a
\* bracketed word in the title.
Blocks ==
    { <<TitreWord, " ", "a", "\n", ResumeWord, " ", "b", "\n",
        CategorieWord, " ", "a">>,
      <<TitreWord, " ", "b", "\n", ResumeWord, " ", "a">>,
      <<TitreWord, " ", "a">>,
      <<TitreWord, " ", "\n", ResumeWord, " ", "b", "\n",
        CategorieWord, " ", "b">>,
      <<TitreWord, " ", "b", "\n", ResumeWord, " ", "\n", CategorieWord>>,
      <<TitreWord, " ", "[", "a", "]", "\n", ResumeWord, " ", "b", "\n",
        CategorieWord, " ", "a">> }

Bodies ==
    {JsonArrayText(vs) : vs \in SeqsUpTo(ObjectLiterals \cup {JsonNull}, MaxItems)}
    \cup {Join(bs, <<"\n">>) : bs \in SeqsUpTo(Blocks, MaxItems)}
Prefixes == {<<>>, <<"a", "\n">>, <<"[">>}
Suffixes == {<<>>, <<"\n">>, <<"\n", "a">>, <<"]">>}

\* response.text: undefined when the response carries no text part.
ResponseTexts ==
    {Undefined} \cup {p \o b \o s : p \in Prefixes, b \in Bodies, s \in Suffixes}

\* A grounding chunk: for `web` and for `maps`, whether the chunk has the
\* property ('web' in chunk), its uri and its title ("" when missing or
\* empty), and for `maps` the placeAnswerSources.reviewSnippets (none when
\* either is missing).
NoPart == [in |-> FALSE, uri |-> "", title |-> ""]
NoMaps == [in |-> FALSE, uri |-> "", title |-> "", reviewSnippets |-> <<>>]
ReviewSnippets ==
    <<[uri |-> "r1", title |-> ""], [uri |-> "", title |-> "t"],
      [uri |-> "r2", title |-> "t"]>>
WebChunk == [web |-> [in |-> TRUE, uri |-> "u1", title |-> "t1"], maps |-> NoMaps]
WebChunkNoUri == [web |-> [in |-> TRUE, uri |-> "", title |-> "t1"], maps |-> NoMaps]
MapsChunk ==
    [web |-> NoPart,
     maps |-> [in |-> TRUE, uri |-> "m1", title |-> "", reviewSnippets |-> <<>>]]
MapsChunkReviewed ==
    [web |-> NoPart,
     maps |-> [in |-> TRUE, uri |-> "m2", title |-> "t2",
               reviewSnippets |-> ReviewSnippets]]
MapsChunkNoUri ==
    [web |-> NoPart,
     maps |-> [in |-> TRUE, uri |-> "", title |-> "t2",
               reviewSnippets |-> ReviewSnippets]]
WebAndMapsChunk ==
    [web |-> [in |-> TRUE, uri |-> "u1", title |-> ""],
     maps |-> [in |-> TRUE, uri |-> "m1", title |-> "t2", reviewSnippets |-> <<>>]]
OtherChunk == [web |-> NoPart, maps |-> NoMaps]
Chunks == {WebChunk, WebChunkNoUri, MapsChunk, MapsChunkReviewed,
           MapsChunkNoUri, WebAndMapsChunk, OtherChunk}

\* groundingChunks: absent (no candidate or no grounding metadata), or a list.
NoChunks == [present |-> FALSE, list |-> <<>>]
GroundingChunkLists ==
    {NoChunks, [present |-> TRUE, list |-> <<>>],
     [present |-> TRUE, list |-> <<MapsChunkReviewed, WebChunk>>]}

\* ---- fetchEnvironmentalNews, step by step
\* The raw articles of a text, and whether computing them or mapping them
\* throws (a SyntaxError of JSON.parse, a TypeError on response.text or on a
\* null element).
UsesJson(text) == text # Undefined /\ HasBrackets(TrimWs(text))
UsesFallback(text) == text # Undefined /\ ~HasBrackets(TrimWs(text))

RawOfElementSwapped(e) ==
    [title |-> ObjectOf(e).summary, summary |-> ObjectOf(e).title,
     category |-> ObjectOf(e).category]
RawOfElement(e) ==
    IF e \in ObjectLiterals THEN ObjectOf(e)
    ELSE [title |-> Undefined, summary |-> Undefined, category |-> Undefined]

ParseThrows(text) ==
    \/ text = Undefined
    \/ /\ UsesJson(text)
       /\ \/ ~JsonParses(CleanedJsonStr(TrimWs(text)))
          \/ \E i \in DOMAIN JsonParse(CleanedJsonStr(TrimWs(text))) :
                JsonParse(CleanedJsonStr(TrimWs(text)))[i] = JsonNull

RawArticles(text) ==
    IF UsesJson(text)
    THEN LET es == JsonParse(CleanedJsonStr(TrimWs(text))) IN
           [i \in DOMAIN es |-> RawOfElement(es[i])]
    ELSE RegexFallback(TrimWs(text), 1)

\* The source collector.
\* What the forEach over the review snippets pushes.
RECURSIVE SnippetSources(_)
SnippetSources(snippets) ==
    IF snippets = <<>> THEN <<>>
    ELSE (IF Head(snippets).uri # ""
          THEN <<[uri |-> Head(snippets).uri,
                  title |-> IF Head(snippets).title # ""
                            THEN Head(snippets).title ELSE "Review Snippet"]>>
          ELSE <<>>) \o SnippetSources(Tail(snippets))

\* What the forEach callback pushes for one chunk.
ChunkSourcesUnchecked(chunk) ==
    (IF chunk.web.in
     THEN <<[uri |-> chunk.web.uri, title |-> chunk.web.title]>> ELSE <<>>)
    \o (IF chunk.maps.in
        THEN <<[uri |-> chunk.maps.uri, title |-> chunk.maps.title]>>
             \o SnippetSources(chunk.maps.reviewSnippets)
        ELSE <<>>)
ChunkSources(chunk) ==
    (IF chunk.web.in /\ chunk.web.uri # ""
     THEN <<[uri |-> chunk.web.uri, title |-> chunk.web.title]>> ELSE <<>>)
    \o (IF chunk.maps.in /\ chunk.maps.uri # ""
        THEN <<[uri |-> chunk.maps.uri, title |-> chunk.maps.title]>>
             \o SnippetSources(chunk.maps.reviewSnippets)
        ELSE <<>>)

RECURSIVE SourcesOf(_)
SourcesOf(list) ==
    IF list = <<>> THEN <<>>
    ELSE ChunkSources(Head(list)) \o SourcesOf(Tail(list))
CollectSources(chunks) ==
    IF chunks.present THEN SourcesOf(chunks.list) ELSE <<>>

\* Date.now() at the call-th call of the map (two calls per article): the
\* clock advances by a millisecond just before call tickAt, never if 0.
DateNow(call, tickAt) ==
    Epoch + (IF tickAt # 0 /\ call >= tickAt THEN 1 ELSE 0)

CreatedAtNewestFirst(n, index, now) == now - index * HourMs
CreatedAt(n, index, now) == now - (n - 1 - index) * HourMs

\* The decimal digits of a natural number, as characters.
RECURSIVE DigitSeq(_)
DigitSeq(k) ==
    IF k < 10 THEN <<ToString(k)>>
    ELSE DigitSeq(k \div 10) \o <<ToString(k % 10)>>

ArticleIdTimestampOnly(index, now) == <<"article-">> \o DigitSeq(now)
\* `article-${index}-${Date.now()}`, as characters.
ArticleId(index, now) ==
    <<"article-">> \o DigitSeq(index) \o <<"-">> \o DigitSeq(now)

ArticleOwnSources(raw, n, index, sources, tickAt) ==
    [id |-> ArticleId(index, DateNow(2 * index + 1, tickAt)),
     title |-> raw.title, summary |-> raw.summary, category |-> raw.category,
     sources |-> IF index = 0 THEN sources ELSE <<>>,
     createdAt |-> CreatedAt(n, index, DateNow(2 * index + 2, tickAt)),
     imageUrl |-> "absent"]
\* rawArticles.map: index counts from 0.
Article(raw, n, index, sources, tickAt) ==
    [id |-> ArticleId(index, DateNow(2 * index + 1, tickAt)),
     title |-> raw.title, summary |-> raw.summary, category |-> raw.category,
     sources |-> sources,
     createdAt |-> CreatedAt(n, index, DateNow(2 * index + 2, tickAt)),
     imageUrl |-> "absent"]

\* new GoogleGenAI(...) threw, outside the try: the error reaches the caller
\* as it is.
ClientError == "GoogleGenAI constructor error"
NewsClientFailed ==
    /\ fetchPc = "call"
    /\ fetchPc' = "thrown"
    /\ thrown' = ClientError
    /\ UNCHANGED <<response, newsArticles, imageJobs, newsArticlesWithImages,
                   appVars, chatVars>>

\* generateContent is called and awaited.
NewsRequested ==
    /\ fetchPc = "call"
    /\ fetchPc' = "awaitContent"
    /\ UNCHANGED <<response, newsArticles, imageJobs, newsArticlesWithImages,
                   thrown, appVars, chatVars>>

\* generateContent rejected.
ContentFailed ==
    /\ fetchPc = "awaitContent"
    /\ \E kind \in FailureKinds :
        /\ fetchPc' = "thrown"
        /\ thrown' = NewsMessage(kind)
    /\ UNCHANGED <<response, newsArticles, imageJobs, newsArticlesWithImages,
                   appVars, chatVars>>

\* generateContent resolved: parse, collect sources, build the articles and
\* start one image job per article; or throw from inside the try.
ContentResolved ==
    /\ fetchPc = "awaitContent"
    /\ \E text \in ResponseTexts, chunks \in GroundingChunkLists :
        /\ response' = [text |-> text, groundingChunks |-> chunks]
        /\ IF ParseThrows(text)
           THEN /\ fetchPc' = "thrown"
                /\ thrown' = NewsMessage("generic")
                /\ UNCHANGED <<newsArticles, imageJobs>>
           ELSE LET raw == RawArticles(text)
                    n == Len(raw) IN
                  \E tickAt \in 0..(2 * n) :
                    /\ fetchPc' = "awaitImages"
                    /\ newsArticles' =
                         [i \in 1..n |-> Article(raw[i], n, i - 1,
                                                 CollectSources(chunks), tickAt)]
                    /\ imageJobs' = [i \in 1..n |-> "pending"]
                    /\ UNCHANGED thrown
    /\ UNCHANGED <<newsArticlesWithImages, appVars, chatVars>>

\* How generateArticleImage ends: with a data URL; with undefined (no inline
\* data in the response, or generateContent failed and the error was caught);
\* or rejecting, when its GoogleGenAI constructor throws outside its try.
ImageOutcomes == {"url", "undefined", "rejected"}

WithImageOnAll(article, outcome) == [article EXCEPT !.imageUrl = "data:url"]
\* The value of one entry of the Promise.all.
WithImage(article, outcome) ==
    IF outcome = "rejected" THEN article
    ELSE [article EXCEPT !.imageUrl =
            IF outcome = "url" THEN "data:url" ELSE "undefined"]

ImageSettled ==
    /\ fetchPc = "awaitImages"
    /\ \E i \in DOMAIN imageJobs, outcome \in ImageOutcomes :
        /\ imageJobs[i] = "pending"
        /\ imageJobs' = [imageJobs EXCEPT ![i] = outcome]
    /\ UNCHANGED <<fetchPc, response, newsArticles, newsArticlesWithImages,
                   thrown, appVars, chatVars>>

\* Promise.all resolved; the function returns.
NewsReturned ==
    /\ fetchPc = "awaitImages"
    /\ \A i \in DOMAIN imageJobs : imageJobs[i] # "pending"
    /\ fetchPc' = "returned"
    /\ newsArticlesWithImages' =
         [i \in DOMAIN newsArticles |-> WithImage(newsArticles[i], imageJobs[i])]
    /\ UNCHANGED <<response, newsArticles, imageJobs, thrown, appVars, chatVars>>

InitNewsEnv == InitChatEnv /\ hasApiKey

NextNews ==
    /\ \/ NewsClientFailed
       \/ NewsRequested
       \/ ContentFailed
       \/ ContentResolved
       \/ ImageSettled
       \/ NewsReturned
    /\ UNCHANGED <<detailVars, sourceVars, reviewVars, renderVars>>

SpecNews == InitNewsEnv /\ [][NextNews]_vars

\* ---- the source collector on its own
\* Any list of at most MaxChunks chunks, or no list, is collected.
InitSourcesEnv ==
    /\ InitApp /\ InitChat /\ InitNews /\ InitDetail /\ InitReviews
    /\ InitRender
    /\ keyGained = 0
    /\ groundingChunks \in
         {NoChunks} \cup {[present |-> TRUE, list |-> l] :
                             l \in SeqsUpTo(Chunks, MaxChunks)}
    /\ allSources = <<>>
    /\ collected = FALSE

Collect ==
    /\ ~collected
    /\ allSources' = CollectSources(groundingChunks)
    /\ collected' = TRUE
    /\ UNCHANGED <<groundingChunks, appVars, chatVars, newsVars, detailVars,
                   reviewVars, renderVars>>

NextSources == Collect

SpecSources == InitSourcesEnv /\ [][NextSources]_vars

\* ================================================================= reviews
\* ReviewForm and ReviewList are rendered on the main view: while the key is
\* held and no article is selected.
FormMounted == hasApiKey /\ selectedArticle = Null

\* What the visitor types into the form: nothing, a blank, a text, a text
\* with a leading blank.
ReviewInputs == {<<>>, <<" ">>, <<"a">>, <<" ", "b">>}

\* The form's state after a step of the App: gone with the form.
FormKept == reviewInput' = IF FormMounted' THEN reviewInput ELSE <<>>

\* The textarea's onChange.
TypeReview ==
    \E v \in ReviewInputs :
        /\ FormMounted
        /\ v # reviewInput
        /\ reviewInput' = v
        /\ UNCHANGED <<reviews, reviewsSubmitted, reviewNow, appVars>>

AddReviewAtEnd(prevReviews, newReview) == Append(prevReviews, newReview)
\* setReviews((prevReviews) => [newReview, ...prevReviews])
AddReview(prevReviews, newReview) == <<newReview>> \o prevReviews

\* ReviewForm.handleSubmit, and the App's handleAddReview it calls when the
\* input is not blank. The clock may have advanced since the last reading.
SubmitReview ==
    /\ FormMounted
    /\ Len(reviewsSubmitted) < MaxReviews
    /\ reviewsSubmitted' = Append(reviewsSubmitted, reviewInput)
    /\ IF Trim(reviewInput) = <<>>
       THEN UNCHANGED <<reviews, reviewInput, reviewNow>>
       ELSE \E tick \in {0, 1} :
            /\ reviewNow' = reviewNow + tick
            /\ reviews' = AddReview(reviews, [id |-> DigitSeq(reviewNow'),
                                              text |-> reviewInput,
                                              timestamp |-> reviewNow'])
            /\ reviewInput' = <<>>
    /\ UNCHANGED appVars

\* The App and the detailed view, as the reviews' environment: navigation
\* (an article is opened and left), key changes (the key is invalidated by a
\* failed load, found again by the key check, selected again) and a reload
\* that succeeds.
ReviewsNavigation ==
    \/ HandleArticleClick
    \/ HandleBackToNews
ReviewsKeyChange ==
    \/ DetailKeyInvalidated
    \/ DetailKeyRechecked
    \/ DetailSelectResolved
    \/ DetailClickSelectApiKey
ReviewsReload ==
    /\ \/ ClickReload
       \/ NewsLoaded
       \/ FactsLoaded
    /\ UNCHANGED detailVars

\* The news has loaded once and the key is held.
InitReviewsEnv == InitDetailEnv

NextReviews ==
    /\ \/ (TypeReview \/ SubmitReview) /\ UNCHANGED detailVars
       \/ /\ ReviewsNavigation \/ ReviewsKeyChange \/ ReviewsReload
          /\ FormKept
          /\ UNCHANGED <<reviews, reviewsSubmitted, reviewNow>>
    /\ UNCHANGED <<chatVars, newsVars, sourceVars, renderVars>>

SpecReviews == InitReviewsEnv /\ [][NextReviews]_vars

\* ======================================================= the source lists
\* The uri values a source takes, and its title: absent or given.
SourceUris == {"u1", "u2", "u3", "u4"}
SourceValues == [uri : SourceUris, title : {"", "t"}]

\* article.sources.map(s => s.uri)
UrisOf(sources) == [i \in 1..Len(sources) |-> sources[i].uri]

\* [...new Set(uris)]: a Set keeps its values in the order they were first
\* inserted.
RECURSIVE Unique(_)
Unique(uris) ==
    IF uris = <<>> THEN <<>>
    ELSE LET front == SubSeq(uris, 1, Len(uris) - 1)
             last == uris[Len(uris)] IN
         IF \E i \in 1..Len(front) : front[i] = last
         THEN Unique(front)
         ELSE Append(Unique(front), last)

\* article.sources.find(s => s.uri === uri): the first one.
Find(sources, uri) ==
    sources[Min({i \in 1..Len(sources) : sources[i].uri = uri})]

\* <a href={uri}>{source?.title || uri}</a>
SourceLink(sources, uri) ==
    [href |-> uri,
     label |-> IF Find(sources, uri).title # "" THEN Find(sources, uri).title
               ELSE uri]

LinksOf(sources, uris) == [i \in 1..Len(uris) |-> SourceLink(sources, uris[i])]

\* .slice(0, 3)
Slice3(seq) == SubSeq(seq, 1, IF Len(seq) < 3 THEN Len(seq) ELSE 3)

DetailSourceLinksRepeating(sources) == LinksOf(sources, UrisOf(sources))
\* DetailedArticleView: the list under "Sources:".
DetailSourceLinks(sources) == LinksOf(sources, Unique(UrisOf(sources)))

\* NewsCard: the list under "Sources:", "limit to 3 sources for brevity".
CardSourceLinks(sources) == LinksOf(sources, Slice3(Unique(UrisOf(sources))))

\* An article with up to MaxSources sources is given to both views.
InitShownEnv ==
    /\ InitApp /\ InitChat /\ InitNews /\ InitDetail /\ InitSources
    /\ InitReviews /\ InitDisplay
    /\ keyGained = 0
    /\ articleSources \in SeqsUpTo(SourceValues, MaxSources)
    /\ detailShown = <<>>
    /\ cardShown = <<>>
    /\ sourcesRendered = FALSE

RenderSources ==
    /\ ~sourcesRendered
    /\ detailShown' = DetailSourceLinks(articleSources)
    /\ cardShown' = CardSourceLinks(articleSources)
    /\ sourcesRendered' = TRUE
    /\ UNCHANGED <<articleSources, appVars, chatVars, newsVars, detailVars,
                   sourceVars, reviewVars, displayVars>>

NextShown == RenderSources

SpecShown == InitShownEnv /\ [][NextShown]_vars

\* ================================================= filteredAndSortedNews
AvailableCategories == {"all", "Destruction", "Conservation", "Protection"}
SortOrders == {"latest", "oldest"}

\* An article of the list: its place in the batch stands for its id;
\* category and createdAt are optional.
NoCreatedAt == [present |-> FALSE, value |-> 0]
CreatedAtValues ==
    {NoCreatedAt, [present |-> TRUE, value |-> 1], [present |-> TRUE, value |-> 2]}
ArticleCategories == {"Destruction", "Conservation", "undefined"}
ArticleValues == [category : ArticleCategories, createdAt : CreatedAtValues]
WithIds(values) ==
    [i \in 1..Len(values) |->
        [id |-> i, category |-> values[i].category,
         createdAt |-> values[i].createdAt]]

\* article.createdAt || 0
CreatedAtOr0(article) ==
    IF article.createdAt.present THEN article.createdAt.value ELSE 0

CompareOldestFirst(order, a, b) == CreatedAtOr0(a) - CreatedAtOr0(b)
\* The comparator given to sort for the order chosen.
Compare(order, a, b) ==
    IF order = "latest" THEN CreatedAtOr0(b) - CreatedAtOr0(a)
    ELSE CreatedAtOr0(a) - CreatedAtOr0(b)

\* currentNews.filter(article => article.category === selectedCategory)
RECURSIVE FilterByCategory(_, _)
FilterByCategory(list, category) ==
    IF list = <<>> THEN <<>>
    ELSE IF Head(list).category = category
         THEN <<Head(list)>> \o FilterByCategory(Tail(list), category)
         ELSE FilterByCategory(Tail(list), category)

\* Array.prototype.sort is stable: an element goes behind every element that
\* does not compare greater than it.
InsertSorted(sorted, x, order) ==
    LET behind == {i \in 1..Len(sorted) : Compare(order, sorted[i], x) > 0}
        at == IF behind = {} THEN Len(sorted) + 1 ELSE Min(behind) IN
    SubSeq(sorted, 1, at - 1) \o <<x>> \o SubSeq(sorted, at, Len(sorted))

RECURSIVE SortBy(_, _)
SortBy(list, order) ==
    IF list = <<>> THEN <<>>
    ELSE InsertSorted(SortBy(SubSeq(list, 1, Len(list) - 1), order),
                      list[Len(list)], order)

\* The useMemo callback: its result, and the list `news` holds afterwards (the
\* callback works on a copy).
FilteredAndSorted(list, category, order) ==
    LET currentNews == IF category # "all"
                       THEN FilterByCategory(list, category) ELSE list IN
    [result |-> SortBy(currentNews, order), news |-> list]

\* A list of up to MaxArticles articles, a category and a sort order.
InitDisplayEnv ==
    /\ InitApp /\ InitChat /\ InitNews /\ InitDetail /\ InitSources
    /\ InitReviews /\ InitShown
    /\ keyGained = 0
    /\ newsList \in {WithIds(v) : v \in SeqsUpTo(ArticleValues, MaxArticles)}
    /\ selectedCategory \in AvailableCategories
    /\ sortOrder \in SortOrders
    /\ filteredAndSortedNews = <<>>
    /\ memoized = FALSE

Memoize ==
    /\ ~memoized
    /\ LET r == FilteredAndSorted(newsList, selectedCategory, sortOrder) IN
         /\ filteredAndSortedNews' = r.result
         /\ newsList' = r.news
    /\ memoized' = TRUE
    /\ UNCHANGED <<selectedCategory, sortOrder, appVars, chatVars, newsVars,
                   detailVars, sourceVars, reviewVars, shownVars>>

NextDisplay == Memoize

SpecDisplay == InitDisplayEnv /\ [][NextDisplay]_vars

\* ==================================================== the busy flags
\* The App's loads and the chat window's sends, each stepped as above: either
\* the loads run with the window closed (as in Spec), or the window is
\* stepped with the App idle (as in SpecChat). The App is idle when no key
\* check is pending, no load was started and no error is shown.
AppIdle == checks = EmptyBag /\ loadsStarted = 0 /\ error = Null

InitBusy == Init \/ InitChatEnv

NextBusy ==
    \/ ~AppIdle /\ Next
    \/ AppIdle /\ NextChat

\* A fetch awaited by a run settles: the provider's calls terminate.
FetchSettles ==
    /\ NewsLoaded \/ NewsFailed \/ FactsLoaded \/ FactsFailed
    /\ UNCHANGED <<chatVars, newsVars, detailVars, sourceVars, reviewVars,
                   renderVars>>

SpecBusy == InitBusy /\ [][NextBusy]_vars /\ WF_vars(FetchSettles)

\* ================================================================ claims
\* C1: no retries are built in: a load is started only by the initial mount
\* check, by a key selection or by the manual reload control, so the number of
\* loads started never exceeds the number of user actions plus one (the mount
\* check). The effect that runs checkApiKeyAndLoadContent fires again on every
\* change of `error`, so a failed fetch does start another load.
C1_LoadsBoundedByUserActions == loadsStarted <= userActions + 1

\* ---------------------------------------------------------------- chat
StreamingAt(msgs) == {i \in DOMAIN msgs : msgs[i].id = Sentinel}

IsPrefix(a, b) == Len(a) <= Len(b) /\ SubSeq(b, 1, Len(a)) = a

\* f1 + ... + fn
RECURSIVE Flatten(_)
Flatten(fs) == IF fs = <<>> THEN <<>> ELSE Head(fs) \o Flatten(Tail(fs))

\* C7: the transcript holds at most one message with the sentinel id
\* 'streaming-bot-response'. A send that fails after a fragment leaves its
\* streaming message under that id, and the next send adds a second one.
C7_AtMostOneStreaming == Cardinality(StreamingAt(messages)) <= 1

\* C8: partial text already delivered is not retracted: while the window
\* stays open and the key does not change, a message holding streamed
\* fragments keeps its place, and its text only grows by further fragments;
\* neither the failure handling nor a later send removes or replaces it. The
\* finalizing update of a later send rewrites the text of every message still
\* under the sentinel id.
C8_PartialTextKept ==
    [][(isChatbotOpen /\ isChatbotOpen' /\ hasApiKey' = hasApiKey)
        => \A i \in StreamingAt(messages) :
              /\ i \in DOMAIN messages'
              /\ IsPrefix(messages[i].text, messages'[i].text)]_vars

\* C9: once a send has resolved, the accumulated text (botResponseText) is the
\* concatenation f1 + ... + fn of the fragments the provider generated, in
\* order, each taken once, and the bot message of that send in the transcript
\* carries that text under a permanent id.
C9_TextIsConcatenation ==
    send.pc = "resolved" =>
        /\ send.text = Flatten(send.produced)
        /\ \A i \in DOMAIN messages :
              (messages[i].of = send.no /\ messages[i].sender = "bot")
                  => /\ messages[i].text = Flatten(send.produced)
                     /\ messages[i].id = TimestampId

\* C9 witness: a send of two different fragments has resolved and its bot
\* message is in the transcript.
C9_Witness ==
    /\ send.pc = "resolved"
    /\ Len(send.produced) = 2
    /\ send.produced[1] # send.produced[2]
    /\ \E i \in DOMAIN messages :
          messages[i].of = send.no /\ messages[i].sender = "bot"

\* C10: while no send is in flight, no message carries the sentinel id: the
\* streamed message was finalized when its stream ended, by resolving or by
\* failing. Only the resolving path finalizes.
C10_FinalizedWhenStreamEnded == ~InFlight => StreamingAt(messages) = {}


\* ---- the news fetch
\* generateContent has resolved with a text.
GotText == response # NoResponse /\ response.text # Undefined
Built == fetchPc \in {"awaitImages", "returned"}

C3_MalformedOutputRecovered == GotText => thrown = Null

\* The title markers of a text.
TitleMarkers(text) == Cardinality({i \in DOMAIN text : text[i] = TitreWord})
NonEmptyRecords(recs) ==
    \A i \in DOMAIN recs : recs[i].title # <<>> /\ recs[i].summary # <<>>

\* C4: for an unstructured text with K title markers the fallback path gives
\* exactly K records, each with a non-empty title and a non-empty summary,
\* and no error; this for the regex fallback the call ran and for the split
\* fallback of services/geminiService.ts applied to the same text.
C4_FallbackYieldsKRecords ==
    (GotText /\ UsesFallback(response.text)) =>
        /\ thrown = Null
        /\ Len(newsArticles) = TitleMarkers(response.text)
        /\ NonEmptyRecords(newsArticles)
        /\ Len(SplitFallback(response.text)) = TitleMarkers(response.text)
        /\ NonEmptyRecords(SplitFallback(response.text))

\* C5: when the text is a JSON array of N well-formed objects, N articles are
\* built, and returned, in the same order, the title, summary and category of
\* each being those of the corresponding object.
SameFields(article, obj) ==
    /\ article.title = obj.title
    /\ article.summary = obj.summary
    /\ article.category = obj.category
C5_JsonArrayVerbatim ==
    \A objs \in SeqsUpTo(ObjectLiterals, MaxItems) :
        (GotText /\ TrimWs(response.text) = JsonArrayText(objs)) =>
            /\ thrown = Null
            /\ Len(newsArticles) = Len(objs)
            /\ \A i \in DOMAIN objs :
                  SameFields(newsArticles[i], ObjectOf(objs[i]))
            /\ fetchPc = "returned" =>
                  /\ Len(newsArticlesWithImages) = Len(objs)
                  /\ \A i \in DOMAIN objs :
                        SameFields(newsArticlesWithImages[i], ObjectOf(objs[i]))

\* The array of two different objects was parsed and the batch returned.
C5_Witness ==
    /\ fetchPc = "returned"
    /\ response.text = JsonArrayText(<<"o1", "o2">>) \o <<"\n">>
    /\ Len(newsArticlesWithImages) = 2
    /\ newsArticlesWithImages[1].title # newsArticlesWithImages[2].title

\* C6: image jobs that fail do not fail the batch: once articles are built
\* nothing is thrown, and all of them are returned in order, each unchanged
\* but for imageUrl, which an article has exactly when its own job gave one.
C6_ImageFailureIsolated ==
    /\ newsArticles # <<>> => thrown = Null
    /\ fetchPc = "returned" =>
         /\ Len(newsArticlesWithImages) = Len(newsArticles)
         /\ \A i \in DOMAIN newsArticles :
              /\ [newsArticlesWithImages[i] EXCEPT !.imageUrl = "absent"]
                    = newsArticles[i]
              /\ newsArticlesWithImages[i].imageUrl = "data:url"
                    <=> imageJobs[i] = "url"

\* Two articles were returned, the image of one having failed in each of the
\* two ways or the other's having succeeded.
C6_Witness ==
    /\ fetchPc = "returned"
    /\ Len(newsArticlesWithImages) = 2
    /\ \E i, j \in DOMAIN imageJobs :
          /\ imageJobs[i] \in {"undefined", "rejected"}
          /\ imageJobs[j] = "url"
          /\ newsArticlesWithImages[j].imageUrl = "data:url"
          /\ newsArticlesWithImages[i].imageUrl # "data:url"


\* ---- the chat session
\* C11: the session handle is present only while the key is available, and
\* it is absent once a chat send has reported a credential error (the key was
\* invalidated), until the key is selected again.
C11_SessionLifecycle ==
    isChatbotOpen =>
        /\ chatSessionRef # Null => hasApiKey
        /\ chatError = ErrChatKey => chatSessionRef = Null


\* C12: createChatSession is called once per turn of the key from unavailable
\* to available: with the window open and the key available, the calls made
\* so far are as many as the times the key became available.
C12_OneSessionPerKeyGain ==
    (isChatbotOpen /\ hasApiKey) => createCalls = keyGained


\* ---- credential errors
\* C13: a credential error of the detailed-article fetch starts the key
\* re-selection flow: while the view shows it, hasApiKey has been reset or a
\* handleSelectApiKey call is under way.
C13_CredentialErrorReselects ==
    errorContent = ErrCredential => (~hasApiKey \/ selects # EmptyBag)


\* C14: whatever makes fetchEnvironmentalNews fail, the caller gets either the
\* credential error or the generic failure that wraps the original message
\* with the operation's context.
C14_ClassificationTotal == thrown # Null => thrown \in {ErrCredential, ErrNews}


\* ---- loadAllContent
\* Nothing of the App is awaited.
Quiescent == runs = {} /\ checks = EmptyBag /\ selects = EmptyBag

\* C15: in a run, the news fetch settling either way sets loading false and
\* issues the facts fetch; the facts fetch settling either way sets
\* loadingFacts false and leaves the article list as it is, its result being
\* what is stored when the facts change; and both flags are false once
\* nothing is awaited any more.
C15_SectionsIndependent ==
    /\ [](Quiescent => (~loading /\ ~loadingFacts))
    /\ [][\A r \in runs :
            /\ (r.pc = "news" /\ r \notin runs') =>
                  /\ [r EXCEPT !.pc = "facts"] \in runs'
                  /\ ~loading'
            /\ (r.pc = "facts" /\ r \notin runs') =>
                  /\ news' = news
                  /\ ~loadingFacts'
                  /\ environmentalFacts' \in {environmentalFacts, r.id}]_vars

\* The only run's news fetch failed, its facts fetch was issued all the same
\* and its result is stored; both flags are false.
C15_Witness ==
    /\ loadsStarted = 1 /\ runs = {}
    /\ error = ErrNews /\ news = 0
    /\ environmentalFacts = 1
    /\ ~loading /\ ~loadingFacts


\* C16: a run is never cancelled (it leaves only through its own stages), and
\* the article list is always the result of the news fetch that resolved
\* last: a fetch that resolves overwrites the list whichever run started
\* last, and nothing else changes the list.
C16_LastWriterWins ==
    [][/\ \A r \in runs :
            \/ r \in runs'
            \/ [r EXCEPT !.pc = "facts"] \in runs'
            \/ r.pc = "facts"
       /\ \A r \in runs :
            (r.pc = "news" /\ r \notin runs' /\ error' = Null) => news' = r.id
       /\ news' # news =>
            \E r \in runs : r.pc = "news" /\ r \notin runs' /\ news' = r.id]_vars

\* Two loads were started and no fetch failed since; the second run is done,
\* the first still awaits its facts, and the list is the first run's: its
\* news fetch resolved after the second run's.
C16_Witness ==
    /\ loadsStarted = 2 /\ error = Null
    /\ news = 1 /\ environmentalFacts = 2
    /\ \E r \in runs : runs = {r} /\ r.id = 1 /\ r.pc = "facts"


\* ---- the source collector
HasUri(x) == x.uri # ""
AsSource(x) == [uri |-> x.uri, title |-> x.title]
SnippetsWithUri(chunk) ==
    LET kept == SelectSeq(chunk.maps.reviewSnippets, HasUri) IN
      [i \in DOMAIN kept |->
         [uri |-> kept[i].uri,
          title |-> IF kept[i].title = "" THEN "Review Snippet"
                    ELSE kept[i].title]]
WebSources(chunk) ==
    IF chunk.web.in /\ HasUri(chunk.web) THEN <<AsSource(chunk.web)>> ELSE <<>>
ChunkListOf(chunks) == IF chunks.present THEN chunks.list ELSE <<>>

\* C17 as stated: the collector output is, chunk after chunk, one Source for
\* a web chunk with a URI, and for each map chunk one Source for the place
\* followed by one Source for every review snippet carrying a URI (titled
\* "Review Snippet" when it has no title); nothing for any other chunk.
C17_CollectorAsStated ==
    collected =>
        allSources =
          Flatten([i \in DOMAIN ChunkListOf(groundingChunks) |->
                     LET chunk == ChunkListOf(groundingChunks)[i] IN
                       WebSources(chunk)
                       \o (IF chunk.maps.in
                           THEN <<AsSource(chunk.maps)>> \o SnippetsWithUri(chunk)
                           ELSE <<>>)])


\* C18: every entry the collector gives, and so every entry of an article's
\* sources, has a non-empty uri.
C18_SourcesHaveUri ==
    collected => \A i \in DOMAIN allSources : allSources[i].uri # ""

\* Chunks without uri and a snippet without uri were among those collected,
\* next to entries that were kept.
C18_Witness ==
    /\ collected
    /\ groundingChunks = [present |-> TRUE,
                          list |-> <<WebChunkNoUri, MapsChunkReviewed>>]
    /\ Len(allSources) = 3


\* ---- the articles of one batch
\* C19: every article of a batch, built or returned, carries the whole output
\* of the collector for that fetch, so any two of them the same sources.
C19_SourcesShared ==
    /\ Built =>
         \A i \in DOMAIN newsArticles :
            newsArticles[i].sources = CollectSources(response.groundingChunks)
    /\ fetchPc = "returned" =>
         \A i \in DOMAIN newsArticlesWithImages :
            newsArticlesWithImages[i].sources
               = CollectSources(response.groundingChunks)

\* Two articles were returned with the four sources collected from a map
\* chunk with review snippets and a web chunk.
C19_Witness ==
    /\ fetchPc = "returned"
    /\ Len(newsArticlesWithImages) = 2
    /\ Len(newsArticlesWithImages[2].sources) = 4
    /\ newsArticlesWithImages[1].sources = newsArticlesWithImages[2].sources

\* C20: two articles at different indices of the list returned by one call
\* have different ids.
C20_IdsDistinct ==
    fetchPc = "returned" =>
        \A i, j \in DOMAIN newsArticlesWithImages :
            i # j => newsArticlesWithImages[i].id # newsArticlesWithImages[j].id

\* Two articles were returned whose ids were built at the same millisecond.
C20_Witness ==
    /\ fetchPc = "returned"
    /\ Len(newsArticlesWithImages) = 2
    /\ newsArticlesWithImages[2].createdAt
          - newsArticlesWithImages[1].createdAt = HourMs
    /\ newsArticlesWithImages[1].id # newsArticlesWithImages[2].id


\* ---- the visitor reviews
NonBlank(str) == Trim(str) # <<>>
Reverse(seq) == [i \in 1..Len(seq) |-> seq[Len(seq) + 1 - i]]
TextsOf(list) == [i \in 1..Len(list) |-> list[i].text]

\* C21: the review list is the non-blank submissions, as typed, newest first,
\* whatever reloads, key changes and navigation came between; a step changes
\* the list only by putting one review before the others.
C21_ReviewsNewestFirst ==
    /\ [](TextsOf(reviews) = Reverse(SelectSeq(reviewsSubmitted, NonBlank)))
    /\ [][reviews' # reviews =>
            /\ Tail(reviews') = reviews
            /\ Len(reviewsSubmitted') = Len(reviewsSubmitted) + 1]_vars

\* A review, a blank submission and a second review were submitted, with a
\* reload or a key selection in between, and an article is now open.
C21_Witness ==
    /\ reviewsSubmitted = <<<<"a">>, <<" ">>, <<" ", "b">>>>
    /\ TextsOf(reviews) = <<<<" ", "b">>, <<"a">>>>
    /\ selectedArticle # Null
    /\ userActions = 1


\* ---- the source lists of the views
HrefsOf(links) == [i \in 1..Len(links) |-> links[i].href]
DistinctUris(sources) == {sources[i].uri : i \in 1..Len(sources)}
FirstAt(sources, uri) == Min({i \in 1..Len(sources) : sources[i].uri = uri})
\* Each distinct uri of the sources once, in order of first occurrence.
EachOnceInOrder(hrefs, sources) ==
    /\ Len(hrefs) = Cardinality(DistinctUris(sources))
    /\ {hrefs[i] : i \in 1..Len(hrefs)} = DistinctUris(sources)
    /\ \A i, j \in 1..Len(hrefs) :
          i < j => FirstAt(sources, hrefs[i]) < FirstAt(sources, hrefs[j])

\* C22 as stated: the detailed view and the card each show every distinct uri
\* of the article's sources once, in order of first occurrence.
C22_EveryViewShowsEachUri ==
    sourcesRendered =>
        /\ EachOnceInOrder(HrefsOf(detailShown), articleSources)
        /\ EachOnceInOrder(HrefsOf(cardShown), articleSources)

\* C22 amended: the detailed view shows every distinct uri once, in order of
\* first occurrence; the card shows the first three of these.
C22_CardShowsFirstThree ==
    sourcesRendered =>
        /\ EachOnceInOrder(HrefsOf(detailShown), articleSources)
        /\ Len(cardShown) = Min({3, Len(detailShown)})
        /\ cardShown = SubSeq(detailShown, 1, Len(cardShown))

\* Four sources with a repeated uri and three distinct ones were rendered.
C22_Witness ==
    /\ sourcesRendered
    /\ Len(articleSources) = 4
    /\ articleSources[1].uri = articleSources[3].uri
    /\ articleSources[1].title # articleSources[3].title
    /\ Len(detailShown) = 3
    /\ Len(cardShown) = 3


\* ---- the displayed list
Selected(list, category) ==
    {i \in 1..Len(list) : category = "all" \/ list[i].category = category}

\* C30: the displayed list holds exactly the articles of the selected
\* category (all of them for 'all'), each once, by createdAt (0 when missing)
\* non-increasing for 'latest' and non-decreasing for 'oldest'; computing it
\* leaves the stored list as it was.
C30_FilteredAndSorted ==
    /\ [](memoized =>
            LET shown == filteredAndSortedNews IN
            /\ Len(shown) = Cardinality(Selected(newsList, selectedCategory))
            /\ {shown[i] : i \in 1..Len(shown)}
                  = {newsList[i] : i \in Selected(newsList, selectedCategory)}
            /\ \A i, j \in 1..Len(shown) :
                  i < j =>
                    IF sortOrder = "latest"
                    THEN CreatedAtOr0(shown[i]) >= CreatedAtOr0(shown[j])
                    ELSE CreatedAtOr0(shown[i]) <= CreatedAtOr0(shown[j]))
    /\ [][newsList' = newsList]_vars

\* Three articles, the first without createdAt and the newest in the middle,
\* two of them of the selected category, were displayed newest first.
C30_Witness ==
    /\ memoized
    /\ Len(newsList) = 3
    /\ ~newsList[1].createdAt.present
    /\ newsList[2].createdAt.value = 2
    /\ newsList[3].category = "undefined"
    /\ selectedCategory = "Destruction"
    /\ sortOrder = "latest"
    /\ Len(filteredAndSortedNews) = 2
    /\ filteredAndSortedNews[1].id = 2


\* ---- the key and the loads
\* C23: the selected key gates every outbound call: a news or a facts request
\* is issued (a run starts, or goes on from the news to the facts) only in a
\* state where the host reports a key and hasApiKey is true. handleSelectApiKey
\* assumes the selection succeeded, and a run whose news fetch failed with the
\* credential error still fetches the facts.
C23_KeyGatesRequests ==
    [][\A r \in runs' \ runs : hasApiKey' /\ hostKey']_vars

\* C24: once a fetch has failed with the credential error and hasApiKey was
\* reset, hasApiKey stays false and no load starts until the user invokes the
\* key selection. The change of `error` runs the key check again, which finds
\* the host's key and loads.
C24_PromptStaysUntilSelection ==
    [][(/\ ~hasApiKey
        /\ error = ErrCredential
        /\ selects = EmptyBag
        /\ userActions' = userActions)
       => (~hasApiKey' /\ loadsStarted' = loadsStarted)]_vars

\* C25: a facts failure never overwrites an error that is set: when the facts
\* fetch of a run fails while `error` holds a message, the message stays. The
\* handler tests the `error` its closure captured when the run started.
C25_FactsErrorNeverOverwrites ==
    [][\A r \in runs :
          (r.pc = "facts" /\ r \notin runs' /\ error # Null)
              => error' = error]_vars

\* C26: while a run is in progress, loading or loadingFacts is true (the
\* reload control is disabled). A key check that fails, or a second run that
\* gets ahead, clears the flags under a run still waiting.
C26_BusyWhileRunning == runs # {} => (loading \/ loadingFacts)

\* ---- the chat window
\* C27: while the window has no session because the key is unavailable, its
\* transcript is empty. A fragment or a failure of a send still in flight
\* when the key was lost adds to the cleared transcript.
C27_NoSessionNoTranscript ==
    (isChatbotOpen /\ ~hasApiKey /\ chatSessionRef = Null) => messages = <<>>

\* C28: at most one chat send is in flight at a time. A send whose window was
\* closed goes on, and the window opened next starts another one.
C28_OneSendInFlight == orphans + (IF InFlight THEN 1 ELSE 0) <= 1


\* ---- the busy flags
\* A run has ended: fewer runs are in progress than were started.
RunEnded == Cardinality(runs) < loadsStarted
SendEnded == send.pc \in {"resolved", "failed"}

\* C29: an operation whose provider calls terminate leaves its busy flag
\* cleared. Once every run started has ended, loading and loadingFacts are
\* false, and once a run has ended they are false at some later moment; once
\* the window's send has resolved or failed, its loading flag is false; the
\* step in which a send fails appends exactly one bot message, the error
\* message, to the transcript.
C29_BusyFlagsCleared ==
    /\ []((loadsStarted > 0 /\ runs = {}) => (~loading /\ ~loadingFacts))
    /\ RunEnded ~> (~loading /\ ~loadingFacts)
    /\ [](SendEnded => ~chatLoading)
    /\ [][(send.pc = "stream" /\ send'.pc = "failed") =>
            /\ Len(messages') = Len(messages) + 1
            /\ SubSeq(messages', 1, Len(messages)) = messages
            /\ messages'[Len(messages')].sender = "bot"
            /\ messages'[Len(messages')].id = TimestampErrorId]_vars

\* A send failed after one fragment: the flag is cleared and the error
\* message follows the partial response.
C29_Witness ==
    /\ send.pc = "failed"
    /\ Len(send.produced) = 1
    /\ ~chatLoading
    /\ Len(messages) = 4
    /\ messages[4].id = TimestampErrorId

=============================================================================
